---- MODULE Spec2Model ----
(***************************************************************************)
(* Strategy trigger and execution engine of velocityback.                  *)
(*                                                                         *)
(* The store is the two D1 tables `strategies` and `strategy_executions`.  *)
(* Every SQL statement is one atomic step; a handler that awaits several   *)
(* statements is a process whose steps interleave with the other           *)
(* processes (the cron sweep, the request in flight, the one-statement     *)
(* requests).  Timestamps (created_at, updated_at, executed_at) are not    *)
(* modelled: no guard of the code reads them.  D1 enforces the FOREIGN KEY *)
(* clauses of the schema, so a row of strategy_executions needs its        *)
(* strategy and a strategy with rows cannot be deleted.                    *)
(*                                                                         *)
(* The chain access layer (RPCService) is the second part: the failover    *)
(* flag, the time of the last failure and a clock in milliseconds; call is *)
(* a process that awaits its fetch, confirmTransaction a process that      *)
(* awaits its calls and its timers.                                        *)
(***************************************************************************)
EXTENDS Integers, Sequences, FiniteSets, TLC

\* ------------------------------------------------------------------ bounds
MaxExecutions == 2
MaxTicks == 32
MaxAttempts == 3

\* ------------------------------------------------------- program constants
MaxActiveStrategies == 10
MaxSlippageDefault == 1000
RETRY_INTERVAL == 30000
timeout == 60000
PollDelay == 1000
ErrorDelay == 2000

\* --------------------------------------------------------------- input sets
Users == {"u1", "u2"}
\* the mints that have a price; the create requests of the larger
\* specifications name the first
Mints == {"m1", "m2"}
CreateMints == {"m1"}
SOL_MINT == "SOL"
TokenSymbols == {"SYM"}
Amounts == {"1000"}
SlippageInputs == {50}
FetchResponses == {"ok", "not_ok", "rejected"}
\* the fields of an arbitrary POST / body, valid and invalid values alike
RequestMints == {"m1", "notbase58"}
RequestSymbols == {"SYM", "", "SYMBOLOFTWENTYONECHAR"}
RequestTypes == {"buy_dip", "take_profit", "sell"}
RequestPrices == {2, 0}
RequestAmounts == {"1000", "0", "abc"}
RequestSlippages == {50, 0, 1001}
PrepareAmounts == {"1000", "5"}
PrepareSlippages == {50, 500, 1000}
\* the strategies a user holds before the requests of SpecLimit
HeldIds == 3..11
Types == {"buy_dip", "take_profit"}
TriggerPrices == {2}
DecisionTriggerPrices == {1, 2, 3}
Prices == {0, 1, 2, 3}
Sigs == {"s1", "s2"}
StatusInputs == {"active", "paused", "triggered"}
ErrorMessages == {"e1"}
QuoteImpacts == {0, 5, 11}
NULL == "NULL"
Ids == {1, 2}
Sweepers == {1, 2}
Slots == {1, 2}
Callers == {1, 2}
Endpoints == {"primary", "backup"}
Methods == {"getBalance", "getSignatureStatuses", "getBlockHeight"}
ConfirmationStatuses == {"processed", "confirmed", "finalized"}
NoStatus == [err |-> FALSE, confirmationStatus |-> "null", height |-> 0]
StatusValues ==
    {NoStatus} \cup
    [err : BOOLEAN, confirmationStatus : ConfirmationStatuses, height : {0}]
LastValidBlockHeights == {5}
BlockHeights == {5, 6}
\* the clock advances in steps of TickMs milliseconds
TickMs == 1000

VARIABLES strategies, executions, nextId, sweep, req,
          primaryFailed, lastPrimaryCheck, backup, now, rpcCall, confirmTx

dbVars == <<strategies, executions, nextId>>
storeVars == <<strategies, executions, nextId, sweep, req>>
rpcVars == <<primaryFailed, lastPrimaryCheck, backup, now, rpcCall, confirmTx>>
vars == <<strategies, executions, nextId, sweep, req,
          primaryFailed, lastPrimaryCheck, backup, now, rpcCall, confirmTx>>

\* ------------------------------------------------------------ SQL statements

\* INSERT INTO strategies (...) VALUES (..., 'active', ...)
InsertStrategy(strats, id, userId, request) ==
    [i \in DOMAIN strats \cup {id} |->
        IF i = id
        THEN [user_id |-> userId,
              token_mint |-> request.tokenMint,
              token_symbol |-> request.tokenSymbol,
              type |-> request.type,
              trigger_price |-> request.triggerPrice,
              amount |-> request.amount,
              slippage_bps |-> request.slippageBps,
              status |-> "active",
              tx_signature |-> NULL]
        ELSE strats[i]]

\* SELECT * FROM strategies WHERE user_id = ?
SelectUserStrategies(strats, userId) ==
    {i \in DOMAIN strats : strats[i].user_id = userId}

\* SELECT * FROM strategies WHERE id = ? AND user_id = ?
SelectStrategyAnyUser(strats, id, userId) ==
    IF id \in DOMAIN strats
    THEN {id} ELSE {}

SelectStrategy(strats, id, userId) ==
    IF id \in DOMAIN strats /\ strats[id].user_id = userId
    THEN {id} ELSE {}

\* UPDATE strategies SET status = ? WHERE id = ? AND user_id = ?
UpdateStatusStmt(strats, id, userId, status) ==
    [i \in DOMAIN strats |->
        IF i = id /\ strats[i].user_id = userId
        THEN [strats[i] EXCEPT !.status = status]
        ELSE strats[i]]

\* the rows of strategy_executions that reference strategy id
RowsOf(execs, id) == {k \in 1..Len(execs) : execs[k].strategy_id = id}

\* DELETE FROM strategies WHERE id = ? AND user_id = ?
\* (fails, changing nothing, when a strategy_executions row references it)
DeleteStmt(strats, execs, id, userId) ==
    IF SelectStrategy(strats, id, userId) # {} /\ RowsOf(execs, id) = {}
    THEN [i \in DOMAIN strats \ {id} |-> strats[i]]
    ELSE strats

\* the rows of a SELECT as a list in id (insertion) order, with the columns
\* checkTriggers reads
RECURSIVE RowList(_, _)
RowList(strats, ids) ==
    IF ids = {} THEN <<>>
    ELSE LET i == CHOOSE x \in ids : \A y \in ids : x <= y
         IN <<[id |-> i,
               token_mint |-> strats[i].token_mint,
               type |-> strats[i].type,
               trigger_price |-> strats[i].trigger_price,
               status |-> strats[i].status]>> \o RowList(strats, ids \ {i})

\* the SELECT without its WHERE clause
SelectActiveNoFilter(strats) == RowList(strats, DOMAIN strats)

\* SELECT * FROM strategies WHERE status = 'active'
SelectActive(strats) ==
    RowList(strats, {i \in DOMAIN strats : strats[i].status = "active"})

\* the UPDATE without its WHERE clause
TriggerStmtNoWhere(strats, id) ==
    [i \in DOMAIN strats |-> [strats[i] EXCEPT !.status = "triggered"]]

\* UPDATE strategies SET status = 'triggered' WHERE id = ?
TriggerStmt(strats, id) ==
    [i \in DOMAIN strats |->
        IF i = id THEN [strats[i] EXCEPT !.status = "triggered"] ELSE strats[i]]

\* the INSERT with its two price bindings exchanged
InsertExecutionSwapped(execs, id, triggerPrice, actualPrice) ==
    Append(execs, [strategy_id |-> id,
                   trigger_price |-> actualPrice,
                   actual_price |-> triggerPrice,
                   status |-> "triggered",
                   error_message |-> NULL,
                   tx_signature |-> NULL])

\* INSERT INTO strategy_executions (...) VALUES (?, ?, ?, ?, 'triggered', ...)
InsertExecution(execs, id, triggerPrice, actualPrice) ==
    Append(execs, [strategy_id |-> id,
                   trigger_price |-> triggerPrice,
                   actual_price |-> actualPrice,
                   status |-> "triggered",
                   error_message |-> NULL,
                   tx_signature |-> NULL])

\* the SELECT without its status condition
SelectTriggeredNoFilter(strats, id) ==
    IF id \in DOMAIN strats THEN {id} ELSE {}

\* SELECT * FROM strategies WHERE id = ? AND status = 'triggered'
SelectTriggered(strats, id) ==
    IF id \in DOMAIN strats /\ strats[id].status = "triggered"
    THEN {id} ELSE {}

\* the UPDATE binding the signature to the token column
ExecuteStrategyStmtWrongColumn(strats, id, txSignature) ==
    [i \in DOMAIN strats |->
        IF i = id
        THEN [strats[i] EXCEPT !.status = "executed", !.token_mint = txSignature]
        ELSE strats[i]]

\* UPDATE strategies SET status = 'executed', tx_signature = ? WHERE id = ?
ExecuteStrategyStmt(strats, id, txSignature) ==
    [i \in DOMAIN strats |->
        IF i = id
        THEN [strats[i] EXCEPT !.status = "executed", !.tx_signature = txSignature]
        ELSE strats[i]]

\* the execution logged as a new row instead of an UPDATE of the triggered one
ExecuteRowsStmtInsert(execs, id, txSignature) ==
    Append(execs, [strategy_id |-> id,
                   trigger_price |-> 0,
                   actual_price |-> 0,
                   status |-> "executed",
                   error_message |-> NULL,
                   tx_signature |-> txSignature])

\* UPDATE strategy_executions SET status = 'executed', tx_signature = ?
\* WHERE strategy_id = ? AND status = 'triggered'
ExecuteRowsStmt(execs, id, txSignature) ==
    [k \in 1..Len(execs) |->
        IF execs[k].strategy_id = id /\ execs[k].status = "triggered"
        THEN [execs[k] EXCEPT !.status = "executed", !.tx_signature = txSignature]
        ELSE execs[k]]

\* UPDATE strategies SET status = 'failed' WHERE id = ?
FailStrategyStmt(strats, id) ==
    [i \in DOMAIN strats |->
        IF i = id THEN [strats[i] EXCEPT !.status = "failed"] ELSE strats[i]]

\* the failure logged as a new row instead of an UPDATE of the triggered one
FailRowsStmtInsert(execs, id, error) ==
    Append(execs, [strategy_id |-> id,
                   trigger_price |-> 0,
                   actual_price |-> 0,
                   status |-> "failed",
                   error_message |-> error,
                   tx_signature |-> NULL])

\* UPDATE strategy_executions SET status = 'failed', error_message = ?
\* WHERE strategy_id = ? AND status = 'triggered'
FailRowsStmt(execs, id, error) ==
    [k \in 1..Len(execs) |->
        IF execs[k].strategy_id = id /\ execs[k].status = "triggered"
        THEN [execs[k] EXCEPT !.status = "failed", !.error_message = error]
        ELSE execs[k]]

\* markStrategyExecuted as a function of the two tables: its two statements
MarkStrategyExecuted(db, id, txSignature) ==
    [strategies |-> ExecuteStrategyStmt(db.strategies, id, txSignature),
     executions |-> ExecuteRowsStmt(db.executions, id, txSignature)]

\* markStrategyFailed as a function of the two tables: its two statements
MarkStrategyFailed(db, id, error) ==
    [strategies |-> FailStrategyStmt(db.strategies, id),
     executions |-> FailRowsStmt(db.executions, id, error)]

\* ------------------------------------------------------------ checkTriggers

\* the decision with strict comparisons
ShouldTriggerStrict(type, triggerPrice, currentPrice) ==
    IF type = "buy_dip" THEN currentPrice < triggerPrice
    ELSE IF type = "take_profit" THEN currentPrice > triggerPrice
    ELSE FALSE

\* the trigger decision of the loop body
ShouldTrigger(type, triggerPrice, currentPrice) ==
    IF type = "buy_dip" THEN currentPrice <= triggerPrice
    ELSE IF type = "take_profit" THEN currentPrice >= triggerPrice
    ELSE FALSE

\* tokenMints = [...new Set(activeStrategies.results.map(s => s.token_mint))]
TokenMints(active) == {active[k].token_mint : k \in 1..Len(active)}

SweepIdle ==
    [pc |-> "idle", active |-> <<>>, prices |-> [m \in Mints |-> 0],
     i |-> 0, results |-> <<>>, base |-> 0, updated |-> <<>>]

\* the loop reading the first strategy at every iteration
CurrentFirst(w) == sweep[w].active[1]

\* the strategy the loop is at
Current(w) == sweep[w].active[sweep[w].i]

\* const currentPrice = prices[strategy.token_mint] || 0
CurrentPrice(w) == sweep[w].prices[Current(w).token_mint]

\* jupiter.getPrices(mints).  cache[m] is the fresh cached price of m (0: no
\* fresh entry), response the outcome of the one batched fetch for the mints
\* that are not cached, fetched[m] the price an OK response carries for m (0:
\* none).  A fetch that rejects is not caught and leaves getPrices as an
\* error; a response that is not OK leaves the uncached mints without a price.
GetPrices(mints, cache, response, fetched) ==
    LET uncached == {m \in mints : cache[m] = 0}
    IN [raised |-> uncached # {} /\ response = "rejected",
        prices |-> [m \in Mints |->
                      IF m \notin mints THEN 0
                      ELSE IF m \notin uncached THEN cache[m]
                      ELSE IF response = "ok" THEN fetched[m]
                      ELSE 0]]

\* every outcome getPrices can have for the mints
GetPricesOutcomes(mints) ==
    {GetPrices(mints, cache, response, fetched) :
        cache \in [mints -> Prices], response \in FetchResponses,
        fetched \in [mints -> Prices]}

\* a tick starts a sweep: the SELECT of the active strategies (an empty result
\* returns [] at once), then jupiter.getPrices, whose error leaves
\* checkTriggers.  getPrices touches no table, so it is taken in the same step
\* as the SELECT.
SweepLoad(w) ==
    /\ sweep[w].pc = "idle"
    /\ LET active == SelectActive(strategies)
       IN \E got \in GetPricesOutcomes(TokenMints(active)) :
            sweep' = [sweep EXCEPT ![w] =
              IF Len(active) = 0 THEN SweepIdle
              ELSE IF got.raised THEN [SweepIdle EXCEPT !.pc = "raised"]
              ELSE [SweepIdle EXCEPT !.pc = "loop", !.active = active, !.i = 1,
                       !.base = Len(executions), !.prices = got.prices]]
    /\ UNCHANGED <<dbVars, req, rpcVars>>

\* the loop body without its `continue` on a zero price
SweepEvalNoSkip(w) ==
    /\ sweep[w].pc = "loop"
    /\ sweep[w].i <= Len(sweep[w].active)
    /\ LET s == Current(w)
           currentPrice == CurrentPrice(w)
           shouldTrigger == ShouldTrigger(s.type, s.trigger_price, currentPrice)
           result == [strategyId |-> s.id, shouldTrigger |-> shouldTrigger,
                      currentPrice |-> currentPrice]
       IN IF shouldTrigger
          THEN /\ strategies' = TriggerStmt(strategies, s.id)
               /\ sweep' = [sweep EXCEPT ![w].pc = "insert",
                                         ![w].results = Append(@, result),
                                         ![w].updated = Append(@, s.id)]
          ELSE /\ sweep' = [sweep EXCEPT ![w].i = @ + 1,
                                         ![w].results = Append(@, result)]
               /\ UNCHANGED strategies
    /\ UNCHANGED <<executions, nextId, req, rpcVars>>

\* one iteration of the loop up to and including its UPDATE
SweepEval(w) ==
    /\ sweep[w].pc = "loop"
    /\ sweep[w].i <= Len(sweep[w].active)
    /\ LET s == Current(w)
           currentPrice == CurrentPrice(w)
           shouldTrigger == ShouldTrigger(s.type, s.trigger_price, currentPrice)
           result == [strategyId |-> s.id, shouldTrigger |-> shouldTrigger,
                      currentPrice |-> currentPrice]
       IN IF currentPrice = 0
          THEN /\ sweep' = [sweep EXCEPT ![w].i = @ + 1]
               /\ UNCHANGED strategies
          ELSE IF shouldTrigger
          THEN /\ strategies' = TriggerStmt(strategies, s.id)
               /\ sweep' = [sweep EXCEPT ![w].pc = "insert",
                                         ![w].results = Append(@, result),
                                         ![w].updated = Append(@, s.id)]
          ELSE /\ sweep' = [sweep EXCEPT ![w].i = @ + 1,
                                         ![w].results = Append(@, result)]
               /\ UNCHANGED strategies
    /\ UNCHANGED <<executions, nextId, req, rpcVars>>

\* the INSERT of the attempt row; a rejected INSERT throws out of checkTriggers
SweepInsert(w) ==
    /\ sweep[w].pc = "insert"
    /\ LET s == Current(w)
       IN IF s.id \in DOMAIN strategies
          THEN /\ Len(executions) < MaxExecutions
               /\ executions' = InsertExecution(executions, s.id, s.trigger_price,
                                                CurrentPrice(w))
               /\ sweep' = [sweep EXCEPT ![w].pc = "loop", ![w].i = @ + 1]
          ELSE /\ sweep' = [sweep EXCEPT ![w].pc = "raised"]
               /\ UNCHANGED executions
    /\ UNCHANGED <<strategies, nextId, req, rpcVars>>

\* return results: the tick is over and the locals are gone
SweepReturn(w) ==
    /\ sweep[w].pc = "loop"
    /\ sweep[w].i > Len(sweep[w].active)
    /\ sweep' = [sweep EXCEPT ![w] = SweepIdle]
    /\ UNCHANGED <<dbVars, req, rpcVars>>

\* the catch of scheduled(): an error of checkTriggers is logged and the tick
\* is over
SweepCatch(w) ==
    /\ sweep[w].pc = "raised"
    /\ sweep' = [sweep EXCEPT ![w] = SweepIdle]
    /\ UNCHANGED <<dbVars, req, rpcVars>>

\* the worker is terminated while checkTriggers awaits: nothing of the run is
\* left but the statements that completed
SweepCrash(w) ==
    /\ sweep[w].pc \in {"loop", "insert"}
    /\ sweep' = [sweep EXCEPT ![w] = SweepIdle]
    /\ UNCHANGED <<dbVars, req, rpcVars>>

\* ------------------------------------------------- one-statement requests

\* PUT /:id/status
PutStatus(userId, id, status) ==
    /\ IF status \in {"active", "paused"}
       THEN strategies' = UpdateStatusStmt(strategies, id, userId, status)
       ELSE UNCHANGED strategies
    /\ UNCHANGED <<executions, nextId, sweep, req, rpcVars>>

\* DELETE /:id
DeleteStrategy(userId, id) ==
    /\ strategies' = DeleteStmt(strategies, executions, id, userId)
    /\ UNCHANGED <<executions, nextId, sweep, req, rpcVars>>

\* --------------------------------------------------- requests with awaits

CreateBodies ==
    [tokenMint : CreateMints, tokenSymbol : TokenSymbols, type : Types,
     triggerPrice : TriggerPrices, amount : Amounts, slippageBps : SlippageInputs]

ReqIdle ==
    [op |-> "none", pc |-> "done", user |-> NULL, id |-> 0, arg |-> NULL,
     body |-> <<>>, found |-> <<>>, quoteReq |-> <<>>, quote |-> <<>>,
     calls |-> <<>>, out |-> NULL]

\* the handler returns: the response code and the log of the collaborator
\* calls it made are kept, the locals are dropped
Finish(r, out) ==
    [req EXCEPT ![r] = [ReqIdle EXCEPT !.out = out, !.calls = req[r].calls]]

\* a handler that returns in its first step
Reject(r, out) ==
    [req EXCEPT ![r] = [ReqIdle EXCEPT !.out = out]]

\* validateMint: the string decodes as base58 to 32 bytes
ValidateMint(mint) == mint \in Mints

\* BigInt(amount) throws a SyntaxError unless the string is an integer literal
BigIntThrows(amount) == amount \notin {"0", "5", "1000"}

\* BigInt(amount) of an integer literal
BigInt(amount) == IF amount = "0" THEN 0 ELSE IF amount = "5" THEN 5 ELSE 1000

\* validateAmount: num > 0n && num <= 2^64 - 1 (every literal of the inputs is
\* below the upper limit)
ValidateAmount(amount) == BigInt(amount) > 0

\* validateSlippage
ValidateSlippage(slippageBps, maxBps) == slippageBps >= 1 /\ slippageBps <= maxBps

\* validatePrice
ValidatePrice(price) == price > 0

\* validateStrategyRequest raises instead of returning: its BigInt throws
ValidationThrows(body) == body.amount # "" /\ BigIntThrows(body.amount)

\* the validation without its check of slippageBps
ValidateStrategyRequestNoSlippage(body, maxSlippage) ==
    {f \in {"tokenMint", "tokenSymbol", "type", "triggerPrice", "amount"} :
        \/ f = "tokenMint" /\ (body.tokenMint = "" \/ ~ValidateMint(body.tokenMint))
        \/ f = "tokenSymbol"
              /\ (body.tokenSymbol = "" \/ Len(body.tokenSymbol) > 20)
        \/ f = "type" /\ body.type \notin {"buy_dip", "take_profit"}
        \/ f = "triggerPrice" /\ ~ValidatePrice(body.triggerPrice)
        \/ f = "amount" /\ (body.amount = "" \/ ~ValidateAmount(body.amount))}

\* validateStrategyRequest: the fields of the errors it returns
ValidateStrategyRequest(body, maxSlippage) ==
    {f \in {"tokenMint", "tokenSymbol", "type", "triggerPrice", "amount",
            "slippageBps"} :
        \/ f = "tokenMint" /\ (body.tokenMint = "" \/ ~ValidateMint(body.tokenMint))
        \/ f = "tokenSymbol"
              /\ (body.tokenSymbol = "" \/ Len(body.tokenSymbol) > 20)
        \/ f = "type" /\ body.type \notin {"buy_dip", "take_profit"}
        \/ f = "triggerPrice" /\ ~ValidatePrice(body.triggerPrice)
        \/ f = "amount" /\ (body.amount = "" \/ ~ValidateAmount(body.amount))
        \/ f = "slippageBps" /\ ~ValidateSlippage(body.slippageBps, maxSlippage)}

\* existingStrategies.filter(s => s.status === 'active').length
ActiveCount(strats, userId) ==
    Cardinality({i \in SelectUserStrategies(strats, userId) :
                    strats[i].status = "active"})

\* the limit check letting the tenth active strategy count as room
CreateBeginOffByOne(r, userId, body) ==
    /\ req[r].pc = "done"
    /\ nextId \in Ids
    /\ req' = IF ValidationThrows(body)
              THEN Reject(r, "INTERNAL_ERROR")
              ELSE IF ValidateStrategyRequest(body, MaxSlippageDefault) # {}
              THEN Reject(r, "VALIDATION_ERROR")
              ELSE IF ActiveCount(strategies, userId) > MaxActiveStrategies
              THEN [req EXCEPT ![r] = [ReqIdle EXCEPT !.out = "LIMIT_REACHED",
                         !.calls = <<"getUserStrategies">>]]
              ELSE [req EXCEPT ![r] = [ReqIdle EXCEPT !.op = "create",
                         !.pc = "insert", !.user = userId, !.body = <<body>>,
                         !.calls = <<"getUserStrategies">>]]
    /\ UNCHANGED <<dbVars, sweep, rpcVars>>

\* POST /: validation (an error it throws reaches app.onError), then the read
\* of the user's strategies and the limit
CreateBegin(r, userId, body) ==
    /\ req[r].pc = "done"
    /\ nextId \in Ids
    /\ req' = IF ValidationThrows(body)
              THEN Reject(r, "INTERNAL_ERROR")
              ELSE IF ValidateStrategyRequest(body, MaxSlippageDefault) # {}
              THEN Reject(r, "VALIDATION_ERROR")
              ELSE IF ActiveCount(strategies, userId) >= MaxActiveStrategies
              THEN [req EXCEPT ![r] = [ReqIdle EXCEPT !.out = "LIMIT_REACHED",
                         !.calls = <<"getUserStrategies">>]]
              ELSE [req EXCEPT ![r] = [ReqIdle EXCEPT !.op = "create",
                         !.pc = "insert", !.user = userId, !.body = <<body>>,
                         !.calls = <<"getUserStrategies">>]]
    /\ UNCHANGED <<dbVars, sweep, rpcVars>>

\* createStrategy: the INSERT under a fresh id
CreateInsert(r) ==
    /\ req[r].op = "create" /\ req[r].pc = "insert"
    /\ nextId \in Ids
    /\ strategies' = InsertStrategy(strategies, nextId, req[r].user, req[r].body[1])
    /\ nextId' = nextId + 1
    /\ req' = [Finish(r, "OK") EXCEPT ![r].calls = Append(@, "createStrategy")]
    /\ UNCHANGED <<executions, sweep, rpcVars>>

\* GET /:id/execute: getStrategy and the route's status check
ExecuteBegin(r, userId, id) ==
    /\ req[r].pc = "done"
    /\ req' = IF SelectStrategy(strategies, id, userId) = {}
              THEN Reject(r, "NOT_FOUND")
              ELSE IF strategies[id].status # "triggered"
              THEN Reject(r, "NOT_TRIGGERED")
              ELSE [req EXCEPT ![r] = [ReqIdle EXCEPT !.op = "execute",
                         !.pc = "prepare", !.id = id]]
    /\ UNCHANGED <<dbVars, sweep, rpcVars>>

\* the request with the direction of buy_dip for every kind
QuoteRequestFixedDirection(strategy) ==
    [inputMint |-> SOL_MINT,
     outputMint |-> strategy.token_mint,
     amount |-> strategy.amount,
     slippageBps |-> strategy.slippage_bps]

\* inputMint, outputMint and the request prepareStrategyExecution passes to
\* jupiter.getQuote
QuoteRequest(strategy) ==
    [inputMint |-> IF strategy.type = "buy_dip" THEN SOL_MINT
                   ELSE strategy.token_mint,
     outputMint |-> IF strategy.type = "buy_dip" THEN strategy.token_mint
                    ELSE SOL_MINT,
     amount |-> strategy.amount,
     slippageBps |-> strategy.slippage_bps]

\* prepareStrategyExecution: the SELECT and its throw, else the quote request
\* it sends
PrepareSelect(r) ==
    /\ req[r].op = "execute" /\ req[r].pc = "prepare"
    /\ req' = IF SelectTriggered(strategies, req[r].id) = {}
              THEN Finish(r, "EXECUTION_ERROR")
              ELSE [req EXCEPT ![r].pc = "quote",
                               ![r].found = <<strategies[req[r].id]>>,
                               ![r].quoteReq =
                                  <<QuoteRequest(strategies[req[r].id])>>]
    /\ UNCHANGED <<dbVars, sweep, rpcVars>>

\* jupiter.getQuote: a failed fetch throws, else a quote comes back
PrepareQuote(r) ==
    /\ req[r].op = "execute" /\ req[r].pc = "quote"
    /\ \E ok \in BOOLEAN, impact \in QuoteImpacts, hasRoute \in BOOLEAN :
          req' = IF ok
                 THEN [req EXCEPT ![r].pc = "swap",
                          ![r].calls = Append(@, "getQuote"),
                          ![r].quote = <<[priceImpactPct |-> impact,
                                          hasRoute |-> hasRoute]>>]
                 ELSE [Finish(r, "EXECUTION_ERROR") EXCEPT
                          ![r].calls = Append(@, "getQuote")]
    /\ UNCHANGED <<dbVars, sweep, rpcVars>>

\* const quoteSlippage = routePlan?.[0]?.swapInfo ? parseInt(priceImpactPct) * 100 : 100
QuoteSlippage(quote) ==
    IF quote.hasRoute THEN quote.priceImpactPct * 100 ELSE 100

\* the preparation marking the strategy executed once the transaction is built
PrepareSwapMarking(r) ==
    /\ req[r].op = "execute" /\ req[r].pc = "swap"
    /\ \E ok \in BOOLEAN :
          /\ req' = [Finish(r, IF QuoteSlippage(req[r].quote[1]) > MaxSlippageDefault
                               THEN "EXECUTION_ERROR"
                               ELSE IF ok THEN "OK" ELSE "EXECUTION_ERROR")
                       EXCEPT ![r].calls = Append(@, "buildSwapTransaction")]
          /\ strategies' = IF ok THEN ExecuteStrategyStmt(strategies, req[r].id, NULL)
                           ELSE strategies
    /\ UNCHANGED <<executions, nextId, sweep, rpcVars>>

\* jupiter.buildSwapTransaction: the slippage guard, then the build request
PrepareSwap(r) ==
    /\ req[r].op = "execute" /\ req[r].pc = "swap"
    /\ \E ok \in BOOLEAN :
          req' = [Finish(r, IF QuoteSlippage(req[r].quote[1]) > MaxSlippageDefault
                            THEN "EXECUTION_ERROR"
                            ELSE IF ok THEN "OK" ELSE "EXECUTION_ERROR")
                    EXCEPT ![r].calls = Append(@, "buildSwapTransaction")]
    /\ UNCHANGED <<dbVars, sweep, rpcVars>>

\* the route refusing a strategy that is not triggered
ConfirmBeginOnlyTriggered(r, userId, id, txSignature) ==
    /\ req[r].pc = "done"
    /\ req' = IF txSignature = ""
              THEN Reject(r, "INVALID_REQUEST")
              ELSE IF SelectStrategy(strategies, id, userId) = {}
              THEN Reject(r, "NOT_FOUND")
              ELSE IF strategies[id].status # "triggered"
              THEN Reject(r, "NOT_TRIGGERED")
              ELSE [req EXCEPT ![r] = [ReqIdle EXCEPT !.op = "confirm",
                         !.pc = "exec_strategy", !.id = id, !.arg = txSignature]]
    /\ UNCHANGED <<dbVars, sweep, rpcVars>>

\* POST /:id/confirm: the signature check and getStrategy
ConfirmBegin(r, userId, id, txSignature) ==
    /\ req[r].pc = "done"
    /\ req' = IF txSignature = ""
              THEN Reject(r, "INVALID_REQUEST")
              ELSE IF SelectStrategy(strategies, id, userId) = {}
              THEN Reject(r, "NOT_FOUND")
              ELSE [req EXCEPT ![r] = [ReqIdle EXCEPT !.op = "confirm",
                         !.pc = "exec_strategy", !.id = id, !.arg = txSignature]]
    /\ UNCHANGED <<dbVars, sweep, rpcVars>>

\* markStrategyExecuted, first statement
ConfirmStrategy(r) ==
    /\ req[r].op = "confirm" /\ req[r].pc = "exec_strategy"
    /\ strategies' = ExecuteStrategyStmt(strategies, req[r].id, req[r].arg)
    /\ req' = [req EXCEPT ![r].pc = "exec_rows"]
    /\ UNCHANGED <<executions, nextId, sweep, rpcVars>>

\* markStrategyExecuted, second statement
ConfirmRows(r) ==
    /\ req[r].op = "confirm" /\ req[r].pc = "exec_rows"
    /\ executions' = ExecuteRowsStmt(executions, req[r].id, req[r].arg)
    /\ req' = Finish(r, "OK")
    /\ UNCHANGED <<strategies, nextId, sweep, rpcVars>>

\* the worker is terminated between the two statements of
\* markStrategyExecuted: the request gets no response
ConfirmCrash(r) ==
    /\ req[r].op = "confirm" /\ req[r].pc = "exec_rows"
    /\ req' = Reject(r, "INTERRUPTED")
    /\ UNCHANGED <<dbVars, sweep, rpcVars>>

\* markStrategyFailed, first statement (no route calls it: the caller is internal)
MarkFailedStrategy(r, id, error) ==
    /\ req[r].pc = "done"
    /\ strategies' = FailStrategyStmt(strategies, id)
    /\ req' = [req EXCEPT ![r] = [ReqIdle EXCEPT !.op = "markFailed",
                  !.pc = "fail_rows", !.id = id, !.arg = error]]
    /\ UNCHANGED <<executions, nextId, sweep, rpcVars>>

\* markStrategyFailed, second statement
MarkFailedRows(r) ==
    /\ req[r].op = "markFailed" /\ req[r].pc = "fail_rows"
    /\ executions' = FailRowsStmt(executions, req[r].id, req[r].arg)
    /\ req' = Finish(r, "OK")
    /\ UNCHANGED <<strategies, nextId, sweep, rpcVars>>

\* --------------------------------------------------------------- RPCService

\* the values a successful response of a method can carry
ResponseValues(method) ==
    IF method = "getSignatureStatuses" THEN StatusValues
    ELSE IF method = "getBlockHeight"
         THEN {[NoStatus EXCEPT !.height = h] : h \in BlockHeights}
         ELSE {NoStatus}

CallIdle ==
    [pc |-> "idle", method |-> NULL, endpoint |-> NULL, attempts |-> <<>>,
     outcome |-> "none", value |-> <<>>]

\* the primary is tried again at the end of the retry interval, not after it
GetEndpointInclusive(failed, lastCheck, t, hasBackup) ==
    IF failed
    THEN IF t - lastCheck >= RETRY_INTERVAL
         THEN [endpoint |-> "primary", primaryFailed |-> FALSE]
         ELSE IF hasBackup
         THEN [endpoint |-> "backup", primaryFailed |-> TRUE]
         ELSE [endpoint |-> "primary", primaryFailed |-> TRUE]
    ELSE [endpoint |-> "primary", primaryFailed |-> FALSE]

\* getEndpoint at time t: the endpoint it returns and the primaryFailed it leaves
GetEndpoint(failed, lastCheck, t, hasBackup) ==
    IF failed
    THEN IF t - lastCheck > RETRY_INTERVAL
         THEN [endpoint |-> "primary", primaryFailed |-> FALSE]
         ELSE IF hasBackup
         THEN [endpoint |-> "backup", primaryFailed |-> TRUE]
         ELSE [endpoint |-> "primary", primaryFailed |-> TRUE]
    ELSE [endpoint |-> "primary", primaryFailed |-> FALSE]

\* call(method, params) up to its await: getEndpoint and the fetch it sends
CallBegin(c, method, t) ==
    LET g == GetEndpoint(primaryFailed, lastPrimaryCheck, t, backup)
    IN /\ primaryFailed' = g.primaryFailed
       /\ rpcCall' = [rpcCall EXCEPT ![c] =
             [CallIdle EXCEPT !.pc = "fetch", !.method = method,
                              !.endpoint = g.endpoint,
                              !.attempts = <<g.endpoint>>]]
       /\ UNCHANGED <<lastPrimaryCheck, backup>>

\* the catch of call retries whatever the flag says
ShouldFailoverAlways == backup

\* if (!this.primaryFailed && this.env.RPC_ENDPOINT_BACKUP)
ShouldFailover == ~primaryFailed /\ backup

\* a caller outside confirmTransaction makes a logical call
LogicalCall(c, method) ==
    /\ rpcCall[c].pc \in {"idle", "done"}
    /\ CallBegin(c, method, now)
    /\ UNCHANGED <<now, confirmTx, storeVars>>

\* the fetch of call settles: a good response returns its result and clears
\* primaryFailed; a failure (fetch rejects, status not ok, data.error) enters
\* the catch, which fails over by a recursive call or rethrows
CallResponse(c) ==
    /\ rpcCall[c].pc = "fetch"
    /\ \E ok \in BOOLEAN, v \in ResponseValues(rpcCall[c].method) :
          IF ok
          THEN /\ primaryFailed' = FALSE
               /\ rpcCall' = [rpcCall EXCEPT ![c].pc = "done",
                                             ![c].outcome = "ok",
                                             ![c].value = <<v>>]
               /\ UNCHANGED lastPrimaryCheck
          ELSE IF ShouldFailover
          THEN /\ Len(rpcCall[c].attempts) < MaxAttempts
               /\ LET g == GetEndpoint(TRUE, now, now, backup)
                  IN /\ primaryFailed' = g.primaryFailed
                     /\ lastPrimaryCheck' = now
                     /\ rpcCall' = [rpcCall EXCEPT
                           ![c].endpoint = g.endpoint,
                           ![c].attempts = Append(@, g.endpoint)]
          ELSE /\ rpcCall' = [rpcCall EXCEPT ![c].pc = "done",
                                             ![c].outcome = "error"]
               /\ UNCHANGED <<primaryFailed, lastPrimaryCheck>>
    /\ UNCHANGED <<backup, now, confirmTx, storeVars>>

\* time passes
Tick ==
    /\ now + TickMs <= MaxTicks * TickMs
    /\ now' = now + TickMs
    /\ UNCHANGED <<primaryFailed, lastPrimaryCheck, backup, rpcCall, confirmTx,
                   storeVars>>

\* ------------------------------------------------------- confirmTransaction

ConfirmIdle ==
    [pc |-> "idle", start |-> 0, lastValid |-> 0, polls |-> 0,
     result |-> "none", cause |-> "none"]

\* the loop runs one poll more, at elapsed time equal to the timeout
LoopContinuesInclusive(t, start) == t - start <= timeout

\* while (Date.now() - start < timeout)
LoopContinues(t, start) == t - start < timeout

\* the confirmation is looked at before the error
StatusDecisionConfirmFirst(status) ==
    IF status # NoStatus
    THEN IF status.confirmationStatus \in {"confirmed", "finalized"} THEN "true"
         ELSE IF status.err THEN "false"
         ELSE "continue"
    ELSE "continue"

\* any present status without error counts as confirmed
StatusDecisionAnyStatus(status) ==
    IF status # NoStatus
    THEN IF status.err THEN "false" ELSE "true"
    ELSE "continue"

\* what the loop does with result.value[0]
StatusDecision(status) ==
    IF status # NoStatus
    THEN IF status.err THEN "false"
         ELSE IF status.confirmationStatus \in {"confirmed", "finalized"} THEN "true"
         ELSE "continue"
    ELSE "continue"

\* the expiry test with >= in place of >
HeightDecisionInclusive(blockHeight, lastValidBlockHeight) ==
    IF blockHeight >= lastValidBlockHeight THEN "false" ELSE "continue"

\* if (blockHeight > lastValidBlockHeight) return false
HeightDecision(blockHeight, lastValidBlockHeight) ==
    IF blockHeight > lastValidBlockHeight THEN "false" ELSE "continue"

\* the locals dropped at a return
Return(w, result, cause) ==
    [w EXCEPT !.pc = "done", !.result = result, !.cause = cause]

\* a loop without the try: the failure of a call leaves confirmTransaction
CallFailedRaises(w) == Return(w, "raised", "call")

\* catch { await new Promise(resolve => setTimeout(resolve, 2000)) }
CallFailed(w) == [w EXCEPT !.pc = "sleepErr"]

\* the loop condition at time t and, when it holds, the first call of the poll
ConfirmLoop(w, t) ==
    IF LoopContinues(t, w.start)
    THEN /\ CallBegin(1, "getSignatureStatuses", t)
         /\ confirmTx' = [w EXCEPT !.pc = "status", !.polls = @ + 1]
    ELSE /\ confirmTx' = Return(w, "false", "timeout")
         /\ UNCHANGED <<primaryFailed, lastPrimaryCheck, backup, rpcCall>>

\* confirmTransaction(signature, blockhash, lastValidBlockHeight) is called
ConfirmStart(lastValidBlockHeight) ==
    /\ confirmTx.pc = "idle"
    /\ rpcCall[1].pc = "idle"
    /\ ConfirmLoop([ConfirmIdle EXCEPT !.start = now,
                                       !.lastValid = lastValidBlockHeight], now)
    /\ UNCHANGED <<now, storeVars>>

\* the poll asking for the block height before it looks at the status
ConfirmStatusHeightFirst ==
    /\ confirmTx.pc = "status"
    /\ rpcCall[1].pc = "done"
    /\ IF rpcCall[1].outcome = "error"
       THEN /\ confirmTx' = CallFailed(confirmTx)
            /\ UNCHANGED <<primaryFailed, lastPrimaryCheck, backup, rpcCall>>
       ELSE /\ CallBegin(1, "getBlockHeight", now)
            /\ confirmTx' = [confirmTx EXCEPT !.pc = "height"]
    /\ UNCHANGED <<now, storeVars>>

\* the getSignatureStatuses call has settled
ConfirmStatus ==
    /\ confirmTx.pc = "status"
    /\ rpcCall[1].pc = "done"
    /\ IF rpcCall[1].outcome = "error"
       THEN /\ confirmTx' = CallFailed(confirmTx)
            /\ UNCHANGED <<primaryFailed, lastPrimaryCheck, backup, rpcCall>>
       ELSE LET d == StatusDecision(rpcCall[1].value[1])
            IN IF d = "continue"
               THEN /\ CallBegin(1, "getBlockHeight", now)
                    /\ confirmTx' = [confirmTx EXCEPT !.pc = "height"]
               ELSE /\ confirmTx' = Return(confirmTx, d, "status")
                    /\ UNCHANGED <<primaryFailed, lastPrimaryCheck, backup, rpcCall>>
    /\ UNCHANGED <<now, storeVars>>

\* the getBlockHeight call has settled
ConfirmHeight ==
    /\ confirmTx.pc = "height"
    /\ rpcCall[1].pc = "done"
    /\ confirmTx' =
          IF rpcCall[1].outcome = "error" THEN CallFailed(confirmTx)
          ELSE IF HeightDecision(rpcCall[1].value[1].height,
                                 confirmTx.lastValid) = "false"
          THEN Return(confirmTx, "false", "expired")
          ELSE [confirmTx EXCEPT !.pc = "sleep"]
    /\ UNCHANGED <<primaryFailed, lastPrimaryCheck, backup, rpcCall, now, storeVars>>

\* the wait of the iteration is over (1000 ms after a poll, 2000 ms after a
\* failed call) and the loop condition is evaluated
ConfirmWake ==
    /\ confirmTx.pc \in {"sleep", "sleepErr"}
    /\ LET t == now + (IF confirmTx.pc = "sleep" THEN PollDelay ELSE ErrorDelay)
       IN /\ now' = t
          /\ ConfirmLoop(confirmTx, t)
    /\ UNCHANGED storeVars

\* ------------------------------------------------------------- specification

\* a fresh RPCService with no backup configured and no caller
RpcIdle ==
    /\ primaryFailed = FALSE
    /\ lastPrimaryCheck = 0
    /\ backup = FALSE
    /\ now = 0
    /\ rpcCall = [c \in Callers |-> CallIdle]
    /\ confirmTx = ConfirmIdle

\* the tables before any request
StoreEmpty ==
    /\ strategies = <<>>
    /\ executions = <<>>
    /\ nextId = 1
    /\ sweep = [w \in Sweepers |-> SweepIdle]
    /\ req = [r \in Slots |-> ReqIdle]

Init ==
    /\ strategies = <<>>
    /\ executions = <<>>
    /\ nextId = 1
    /\ RpcIdle
    /\ sweep = [w \in Sweepers |-> SweepIdle]
    /\ req = [r \in Slots |-> ReqIdle]

\* The specifications share the tables and the handlers and differ in the
\* requests their clients send.  In each there is one sweep at a time (the
\* cron tick) and one awaiting request in flight; the one-statement requests
\* (PUT status, DELETE) interleave anywhere.

Sweep ==
    \/ SweepLoad(1)
    \/ SweepEval(1)
    \/ SweepInsert(1)
    \/ SweepReturn(1)
    \/ SweepCatch(1)

Create ==
    \/ \E b \in CreateBodies : CreateBegin(1, "u1", b)
    \/ CreateInsert(1)

\* the trigger side: creation, pause and resume, deletion, the sweep and
\* markStrategyFailed
Next ==
    \/ Sweep
    \/ Create
    \/ \E i \in Ids, st \in StatusInputs : PutStatus("u1", i, st)
    \/ \E i \in Ids : DeleteStrategy("u1", i)
    \/ \E i \in Ids, e \in ErrorMessages : MarkFailedStrategy(1, i, e)
    \/ MarkFailedRows(1)

Spec == Init /\ [][Next]_vars

\* the confirmation side: creation, resume, the sweep and POST /:id/confirm
NextConfirm ==
    \/ Sweep
    \/ Create
    \/ \E i \in Ids : PutStatus("u1", i, "active")
    \/ \E i \in Ids : ConfirmBegin(1, "u1", i, "s1")
    \/ ConfirmStrategy(1)
    \/ ConfirmRows(1)

SpecConfirm == Init /\ [][NextConfirm]_vars

\* the preparation side: strategy 1 has been created and a sweep has triggered
\* it at price 1 (the state Spec reaches by CreateBegin, CreateInsert,
\* SweepLoad, SweepEval, SweepInsert, SweepReturn); GET /:id/execute is in
\* flight in slot 1 while pause and resume, the sweep, POST /:id/confirm and
\* markStrategyFailed (slot 2) run beside it
InitExecute ==
    /\ strategies = TriggerStmt(InsertStrategy(<<>>, 1, "u1",
                       [tokenMint |-> "m1", tokenSymbol |-> "SYM", type |-> "buy_dip",
                        triggerPrice |-> 2, amount |-> "1000",
                        slippageBps |-> 50]), 1)
    /\ executions = InsertExecution(<<>>, 1, 2, 1)
    /\ nextId = 2
    /\ RpcIdle
    /\ sweep = [w \in Sweepers |-> SweepIdle]
    /\ req = [r \in Slots |-> IF r = 1 THEN [ReqIdle EXCEPT !.out = "OK"] ELSE ReqIdle]

NextExecute ==
    \/ Sweep
    \/ \E st \in {"active", "paused"} : PutStatus("u1", 1, st)
    \/ \E i \in Ids : ExecuteBegin(1, "u1", i)
    \/ PrepareSelect(1)
    \/ PrepareQuote(1)
    \/ PrepareSwap(1)
    \/ ConfirmBegin(2, "u1", 1, "s1")
    \/ ConfirmStrategy(2)
    \/ ConfirmRows(2)
    \/ \E e \in ErrorMessages : MarkFailedStrategy(2, 1, e)
    \/ MarkFailedRows(2)

SpecExecute == InitExecute /\ [][NextExecute]_vars

\* the trigger decision alone: one strategy of any kind and trigger price has
\* been created; sweeps evaluate it at every price, and resume re-arms it
InitDecision ==
    /\ \E type \in Types, triggerPrice \in DecisionTriggerPrices :
          strategies = InsertStrategy(<<>>, 1, "u1",
                          [tokenMint |-> "m1", tokenSymbol |-> "SYM",
                           type |-> type, triggerPrice |-> triggerPrice,
                           amount |-> "1000", slippageBps |-> 50])
    /\ executions = <<>>
    /\ nextId = 2
    /\ RpcIdle
    /\ sweep = [w \in Sweepers |-> SweepIdle]
    /\ req = [r \in Slots |-> IF r = 1 THEN [ReqIdle EXCEPT !.out = "OK"] ELSE ReqIdle]

NextDecision ==
    \/ Sweep
    \/ PutStatus("u1", 1, "active")

SpecDecision == InitDecision /\ [][NextDecision]_vars

\* the chain access layer: one caller makes logical calls one after the other
\* while time passes; the backup endpoint is configured or not
InitRpc ==
    /\ StoreEmpty
    /\ primaryFailed = FALSE
    /\ lastPrimaryCheck = 0
    /\ backup \in BOOLEAN
    /\ now = 0
    /\ rpcCall = [c \in Callers |-> CallIdle]
    /\ confirmTx = ConfirmIdle

NextRpc ==
    \/ LogicalCall(1, "getBalance")
    \/ CallResponse(1)
    \/ Tick

SpecRpc == InitRpc /\ [][NextRpc]_vars

\* one confirmTransaction over the same layer
NextConfirmTx ==
    \/ \E h \in LastValidBlockHeights : ConfirmStart(h)
    \/ CallResponse(1)
    \/ ConfirmStatus
    \/ ConfirmHeight
    \/ ConfirmWake

SpecConfirmTx == InitRpc /\ [][NextConfirmTx]_vars

\* the runtime settles every fetch and fires every timer
SpecConfirmTxFair ==
    /\ SpecConfirmTx
    /\ WF_vars(CallResponse(1))
    /\ WF_vars(ConfirmStatus)
    /\ WF_vars(ConfirmHeight)
    /\ WF_vars(ConfirmWake)

\* overlapping ticks: two sweeps run over the one strategy of InitDecision
\* while its user confirms it
Sweep2 ==
    \/ SweepLoad(2)
    \/ SweepEval(2)
    \/ SweepInsert(2)
    \/ SweepReturn(2)
    \/ SweepCatch(2)

NextOverlap ==
    \/ Sweep
    \/ Sweep2
    \/ ConfirmBegin(1, "u1", 1, "s1")
    \/ ConfirmStrategy(1)
    \/ ConfirmRows(1)

SpecOverlap == InitDecision /\ [][NextOverlap]_vars

\* the limit of active strategies: user u1 holds nine active strategies; two
\* POST / of u1 are in flight at once and u1 pauses (never resumes) the
\* strategies they create
InitLimit ==
    /\ strategies = [i \in HeldIds |->
                       [user_id |-> "u1", token_mint |-> "m1",
                        token_symbol |-> "SYM", type |-> "buy_dip",
                        trigger_price |-> 2, amount |-> "1000",
                        slippage_bps |-> 50, status |-> "active",
                        tx_signature |-> NULL]]
    /\ executions = <<>>
    /\ nextId = 1
    /\ RpcIdle
    /\ sweep = [w \in Sweepers |-> SweepIdle]
    /\ req = [r \in Slots |-> ReqIdle]

Create2 ==
    \/ \E b \in CreateBodies : CreateBegin(2, "u1", b)
    \/ CreateInsert(2)

NextLimit ==
    \/ Create
    \/ Create2
    \/ \E i \in Ids : PutStatus("u1", i, "paused")

SpecLimit == InitLimit /\ [][NextLimit]_vars

\* validation: any user posts any body, valid or not
RequestBodies ==
    [tokenMint : RequestMints, tokenSymbol : RequestSymbols, type : RequestTypes,
     triggerPrice : RequestPrices, amount : RequestAmounts,
     slippageBps : RequestSlippages]

NextValidate ==
    \/ \E u \in Users, b \in RequestBodies : CreateBegin(1, u, b)
    \/ CreateInsert(1)
    \/ \E u \in Users, i \in Ids : PutStatus(u, i, "paused")

SpecValidate == Init /\ [][NextValidate]_vars

\* the preparation alone: one triggered strategy of any kind, amount and
\* slippage tolerance with its attempt row; GET /:id/execute runs over it
InitPrepare ==
    /\ \E type \in Types, amount \in PrepareAmounts, slippageBps \in PrepareSlippages :
          strategies = TriggerStmt(InsertStrategy(<<>>, 1, "u1",
                          [tokenMint |-> "m1", tokenSymbol |-> "SYM",
                           type |-> type, triggerPrice |-> 2,
                           amount |-> amount, slippageBps |-> slippageBps]), 1)
    /\ executions = InsertExecution(<<>>, 1, 2, 2)
    /\ nextId = 2
    /\ RpcIdle
    /\ sweep = [w \in Sweepers |-> SweepIdle]
    /\ req = [r \in Slots |-> IF r = 1 THEN [ReqIdle EXCEPT !.out = "OK"] ELSE ReqIdle]

NextPrepare ==
    \/ \E i \in Ids : ExecuteBegin(1, "u1", i)
    \/ PrepareSelect(1)
    \/ PrepareQuote(1)
    \/ PrepareSwap(1)

SpecPrepare == InitPrepare /\ [][NextPrepare]_vars

\* prices per mint: two strategies of any kind on two mints have been created;
\* sweeps evaluate them at every pair of prices, and resume re-arms them
InitSkip ==
    /\ \E t1 \in Types, t2 \in Types :
          strategies = InsertStrategy(
                          InsertStrategy(<<>>, 1, "u1",
                             [tokenMint |-> "m1", tokenSymbol |-> "SYM",
                              type |-> t1, triggerPrice |-> 2,
                              amount |-> "1000", slippageBps |-> 50]),
                          2, "u1",
                          [tokenMint |-> "m2", tokenSymbol |-> "SYM",
                           type |-> t2, triggerPrice |-> 2,
                           amount |-> "1000", slippageBps |-> 50])
    /\ executions = <<>>
    /\ nextId = 3
    /\ RpcIdle
    /\ sweep = [w \in Sweepers |-> SweepIdle]
    /\ req = [r \in Slots |-> IF r = 1 THEN [ReqIdle EXCEPT !.out = "OK"] ELSE ReqIdle]

NextSkip ==
    \/ Sweep
    \/ \E i \in Ids : PutStatus("u1", i, "active")

SpecSkip == InitSkip /\ [][NextSkip]_vars

\* crashes and retries: two strategies of any kind and trigger price on two
\* mints; every fetch that answers reports the same prices; a sweep can be
\* terminated at any of its awaits, and no user request arrives
SteadyPrices == [m \in Mints |-> 2]

InitCrash ==
    /\ \E t1 \in Types, t2 \in Types,
          p1 \in DecisionTriggerPrices, p2 \in DecisionTriggerPrices :
          strategies = InsertStrategy(
                          InsertStrategy(<<>>, 1, "u1",
                             [tokenMint |-> "m1", tokenSymbol |-> "SYM",
                              type |-> t1, triggerPrice |-> p1,
                              amount |-> "1000", slippageBps |-> 50]),
                          2, "u1",
                          [tokenMint |-> "m2", tokenSymbol |-> "SYM",
                           type |-> t2, triggerPrice |-> p2,
                           amount |-> "1000", slippageBps |-> 50])
    /\ executions = <<>>
    /\ nextId = 3
    /\ RpcIdle
    /\ sweep = [w \in Sweepers |-> SweepIdle]
    /\ req = [r \in Slots |-> IF r = 1 THEN [ReqIdle EXCEPT !.out = "OK"] ELSE ReqIdle]

\* the start of a sweep while the prices are steady
SteadyLoad ==
    /\ SweepLoad(1)
    /\ \A m \in TokenMints(sweep'[1].active) :
          sweep'[1].prices[m] = SteadyPrices[m]

NextCrash ==
    \/ SteadyLoad
    \/ SweepEval(1)
    \/ SweepInsert(1)
    \/ SweepReturn(1)
    \/ SweepCatch(1)
    \/ SweepCrash(1)

SpecCrash == InitCrash /\ [][NextCrash]_vars

\* ticks keep coming and the runtime resumes every await of a sweep that is
\* not terminated
SpecCrashFair ==
    /\ SpecCrash
    /\ WF_vars(SteadyLoad)
    /\ WF_vars(SweepEval(1))
    /\ WF_vars(SweepInsert(1))
    /\ WF_vars(SweepReturn(1))
    /\ WF_vars(SweepCatch(1))

\* retries of a confirmation: over the triggered strategy of InitPrepare its
\* user posts the same signature again and again, in slot 1, where the worker
\* can be terminated between the two writes, and in slot 2
NextRetry ==
    \/ ConfirmBegin(1, "u1", 1, "s1")
    \/ ConfirmStrategy(1)
    \/ ConfirmCrash(1)
    \/ ConfirmRows(1)
    \/ ConfirmBegin(2, "u1", 1, "s1")
    \/ ConfirmStrategy(2)
    \/ ConfirmRows(2)

SpecRetry == InitPrepare /\ [][NextRetry]_vars

\* concurrent callers: two logical calls at a time share the one RPCService
\* instance (its flag and its failure time)
NextRpcConcurrent ==
    \/ \E c \in Callers : LogicalCall(c, "getBalance")
    \/ \E c \in Callers : CallResponse(c)

SpecRpcConcurrent == InitRpc /\ [][NextRpcConcurrent]_vars

\* ------------------------------------------- the routes of two users
\* slot 1 carries the requests authenticated as u1, slot 2 those of u2

RequestSigs == {"s1", ""}

\* GET /:id
GetRequest(r, userId, id) ==
    /\ req[r].pc = "done"
    /\ req' = IF SelectStrategy(strategies, id, userId) = {}
              THEN Reject(r, "NOT_FOUND")
              ELSE [req EXCEPT ![r] = [ReqIdle EXCEPT !.out = "OK",
                         !.found = <<strategies[id]>>]]
    /\ UNCHANGED <<dbVars, sweep, rpcVars>>

\* PUT /:id/status with its response
PutStatusRequest(r, userId, id, status) ==
    /\ req[r].pc = "done"
    /\ IF status \notin {"active", "paused"}
       THEN /\ req' = Reject(r, "INVALID_STATUS")
            /\ UNCHANGED strategies
       ELSE /\ strategies' = UpdateStatusStmt(strategies, id, userId, status)
            /\ req' = IF SelectStrategy(strategies, id, userId) = {}
                      THEN Reject(r, "NOT_FOUND")
                      ELSE Reject(r, "OK")
    /\ UNCHANGED <<executions, nextId, sweep, rpcVars>>

\* DELETE /:id with its response (the statement throws when a
\* strategy_executions row references the strategy)
DeleteRequest(r, userId, id) ==
    /\ req[r].pc = "done"
    /\ strategies' = DeleteStmt(strategies, executions, id, userId)
    /\ req' = IF SelectStrategy(strategies, id, userId) = {}
              THEN Reject(r, "NOT_FOUND")
              ELSE IF RowsOf(executions, id) # {}
              THEN Reject(r, "INTERNAL_ERROR")
              ELSE Reject(r, "OK")
    /\ UNCHANGED <<executions, nextId, sweep, rpcVars>>

\* strategy 1 belongs to u2 and strategy 2 to u1; each is active, or
\* triggered with its attempt row
InitIsolation ==
    /\ \E triggered \in SUBSET Ids :
          LET created == InsertStrategy(InsertStrategy(<<>>, 1, "u2",
                              [tokenMint |-> "m1", tokenSymbol |-> "SYM",
                               type |-> "sell", triggerPrice |-> 2,
                               amount |-> "1000", slippageBps |-> 50]), 2, "u1",
                              [tokenMint |-> "m1", tokenSymbol |-> "SYM",
                               type |-> "sell", triggerPrice |-> 2,
                               amount |-> "1000", slippageBps |-> 50])
          IN /\ strategies = [i \in Ids |-> IF i \in triggered
                                              THEN TriggerStmt(created, i)[i]
                                              ELSE created[i]]
             /\ executions = IF triggered = {} THEN <<>>
                             ELSE IF triggered = {1} THEN InsertExecution(<<>>, 1, 2, 2)
                             ELSE IF triggered = {2} THEN InsertExecution(<<>>, 2, 2, 2)
                             ELSE InsertExecution(InsertExecution(<<>>, 1, 2, 2), 2, 2, 2)
    /\ nextId = 3
    /\ RpcIdle
    /\ sweep = [w \in Sweepers |-> SweepIdle]
    /\ req = [r \in Slots |-> ReqIdle]

\* a request of u1 that names strategy id
RequestOfA(id) ==
    \/ GetRequest(1, "u1", id)
    \/ \E status \in StatusInputs : PutStatusRequest(1, "u1", id, status)
    \/ DeleteRequest(1, "u1", id)
    \/ ExecuteBegin(1, "u1", id)
    \/ \E txSignature \in RequestSigs : ConfirmBegin(1, "u1", id, txSignature)

\* the later steps of the handlers of u1
HandlerOfA ==
    \/ PrepareSelect(1)
    \/ PrepareQuote(1)
    \/ PrepareSwap(1)
    \/ ConfirmStrategy(1)
    \/ ConfirmRows(1)

\* u2 works on its own strategy meanwhile
RequestOfB ==
    \/ \E status \in StatusInputs : PutStatusRequest(2, "u2", 1, status)
    \/ ConfirmBegin(2, "u2", 1, "s2")
    \/ ConfirmStrategy(2)
    \/ ConfirmRows(2)

NextIsolation ==
    \/ \E id \in Ids : RequestOfA(id)
    \/ HandlerOfA
    \/ RequestOfB

SpecIsolation == InitIsolation /\ [][NextIsolation]_vars

\* ------------------------------------------------------------------ claims

\* the trigger condition as the specification words it
RefTrigger(kind, P, p) ==
    \/ kind = "buy_dip" /\ p <= P
    \/ kind = "take_profit" /\ p >= P

\* the ids of the strategies a sweep loaded
SnapshotIds(w) == {sweep[w].active[k].id : k \in 1..Len(sweep[w].active)}

\* the rows of strategy id appended since sweep w loaded
NewRows(w, id) ==
    {k \in (sweep[w].base + 1)..Len(executions) : executions[k].strategy_id = id}

\* the UPDATEs sweep w issued for strategy id
Written(w, id) ==
    {k \in 1..Len(sweep[w].updated) : sweep[w].updated[k] = id}

\* the most recent row of strategy id with status 'triggered', if any
MostRecentTriggered(execs, id) ==
    LET T == {k \in RowsOf(execs, id) : execs[k].status = "triggered"}
    IN IF T = {} THEN {} ELSE {CHOOSE k \in T : \A j \in T : j <= k}

\* C1: every step that changes a strategy's stored status to triggered starts
\* from a state in which that strategy's stored status is active, whatever
\* pause, resume or delete request lands between the sweep's read and write.
C1_TriggeredOnlyFromActive ==
    [][\A i \in Ids :
          (/\ i \in DOMAIN strategies
           /\ i \in DOMAIN strategies'
           /\ strategies[i].status # "triggered"
           /\ strategies'[i].status = "triggered")
          => strategies[i].status = "active"]_vars

\* C2: executed and failed are terminal: a strategy whose stored status is
\* executed or failed keeps that status in every later step.
C2_TerminalStatuses ==
    [][\A i \in Ids :
          (/\ i \in DOMAIN strategies
           /\ i \in DOMAIN strategies'
           /\ strategies[i].status \in {"executed", "failed"})
          => strategies'[i].status = strategies[i].status]_vars

\* the outcome C3 asks of a run of sweep w, read when the run ends (a strategy
\* deleted during the run has no outcome to read)
C3_RunOutcome(w) ==
    \A k \in 1..Len(sweep[w].active) :
       LET s == sweep[w].active[k]
           p == sweep[w].prices[s.token_mint]
       IN /\ (s.id \in DOMAIN strategies /\ p # 0
                 /\ RefTrigger(s.type, s.trigger_price, p))
               => /\ Cardinality(Written(w, s.id)) = 1
                  /\ Cardinality(NewRows(w, s.id)) = 1
                  /\ \A n \in NewRows(w, s.id) :
                        /\ executions[n].trigger_price = s.trigger_price
                        /\ executions[n].actual_price = p
          /\ (p # 0 /\ ~RefTrigger(s.type, s.trigger_price, p))
               => /\ Written(w, s.id) = {}
                  /\ NewRows(w, s.id) = {}

\* C3: when a run of checkTriggers ends, each strategy that was active at its
\* read, has a non-zero price and meets its condition has been written
\* triggered exactly once and has exactly one new attempt row, appended with
\* status 'triggered', the strategy's trigger price and the observed price; a
\* strategy whose condition does not hold was not written and has no new row.
C3_TriggeredOncePerRun ==
    /\ [][(sweep[1].pc # "idle" /\ sweep'[1].pc = "idle") => C3_RunOutcome(1)]_vars
    /\ [][(sweep[1].pc = "insert" /\ Len(executions') = Len(executions) + 1)
            => executions'[Len(executions')].status = "triggered"]_vars

\* C4: a step of a sweep leaves the status of every strategy outside the
\* sweep's snapshot unchanged and appends no row for it, and the snapshot holds
\* no strategy whose status is not active at the load.
C4_SweepFrame ==
    [][(sweep'[1] # sweep[1]) =>
         /\ (sweep[1].pc = "idle") =>
               /\ \A i \in DOMAIN strategies :
                     strategies[i].status # "active" => i \notin SnapshotIds(1)'
               /\ UNCHANGED <<strategies, executions>>
         /\ (sweep[1].pc # "idle") =>
               \A i \in DOMAIN strategies \ SnapshotIds(1) :
                  /\ i \in DOMAIN strategies'
                  /\ strategies'[i] = strategies[i]
                  /\ RowsOf(executions', i) = RowsOf(executions, i)
                  /\ \A k \in RowsOf(executions, i) : executions'[k] = executions[k]]_vars

\* a sweep is between its two writes while a strategy it did not load has
\* failed and has its attempt row
C4_Witness ==
    /\ sweep[1].pc = "insert"
    /\ \E i \in DOMAIN strategies \ SnapshotIds(1) :
          strategies[i].status = "failed" /\ RowsOf(executions, i) # {}

\* C5: every decision a sweep reports is made on a non-zero price and equals
\* the reference predicate: buy_dip triggers iff p <= P, take_profit iff p >= P.
C5_DecisionMatchesReference ==
    \A k \in 1..Len(sweep[1].results) :
       LET r == sweep[1].results[k]
           s == sweep[1].active[CHOOSE n \in 1..Len(sweep[1].active) :
                                   sweep[1].active[n].id = r.strategyId]
       IN /\ r.currentPrice # 0
          /\ r.shouldTrigger = RefTrigger(s.type, s.trigger_price, r.currentPrice)

\* a sweep decided to trigger at a price equal to the trigger price
C5_Witness ==
    \E k \in 1..Len(sweep[1].results) :
       /\ sweep[1].results[k].shouldTrigger
       /\ sweep[1].results[k].currentPrice = sweep[1].active[1].trigger_price
       /\ sweep[1].results[k].strategyId = sweep[1].active[1].id

\* C6: a strategy reaches executed only from triggered: a step that sets a
\* strategy's row to executed starts with that strategy triggered.
C6_ExecutedOnlyFromTriggered ==
    [][\A i \in Ids :
          (/\ i \in DOMAIN strategies
           /\ i \in DOMAIN strategies'
           /\ strategies'[i] # strategies[i]
           /\ strategies'[i].status = "executed")
          => strategies[i].status = "triggered"]_vars

\* C7: a PUT /:id/status on a triggered, executed or failed strategy leaves its
\* status as it is, and in every case the request changes no column but the
\* status of that one strategy and no attempt row.
C7_StatusUpdateOnlyPauseResume ==
    [][\A i \in Ids, st \in StatusInputs :
          PutStatus("u1", i, st) =>
             /\ executions' = executions
             /\ DOMAIN strategies' = DOMAIN strategies
             /\ \A j \in DOMAIN strategies :
                   /\ j # i => strategies'[j] = strategies[j]
                   /\ strategies'[j] = [strategies[j] EXCEPT
                                           !.status = strategies'[j].status]
                   /\ strategies[j].status \in {"triggered", "executed", "failed"}
                        => strategies'[j].status = strategies[j].status]_vars

\* C8: for a triggered strategy, markStrategyExecuted applied twice with the
\* same signature s gives the state it gives applied once: the strategy is
\* executed with signature s and its triggered attempt rows are executed with
\* s; and the steps of a repeated call change neither table.
C8_Once ==
    \A i \in DOMAIN strategies, s \in Sigs :
       strategies[i].status = "triggered" =>
          LET db == [strategies |-> strategies, executions |-> executions]
              once == MarkStrategyExecuted(db, i, s)
              twice == MarkStrategyExecuted(once, i, s)
          IN /\ twice = once
             /\ once.strategies[i].status = "executed"
             /\ once.strategies[i].tx_signature = s
             /\ Len(once.executions) = Len(executions)
             /\ \A k \in RowsOf(executions, i) :
                   executions[k].status = "triggered"
                     => /\ once.executions[k].status = "executed"
                        /\ once.executions[k].tx_signature = s

\* the request in flight repeats a call that has completed
C8_Repeat ==
    /\ req[1].op = "confirm"
    /\ req[1].id \in DOMAIN strategies
    /\ strategies[req[1].id].status = "executed"
    /\ strategies[req[1].id].tx_signature = req[1].arg
    /\ \A k \in RowsOf(executions, req[1].id) : executions[k].status # "triggered"

C8_ConfirmIdempotent ==
    /\ []C8_Once
    /\ [][(C8_Repeat /\ req'[1] # req[1]) => UNCHANGED <<strategies, executions>>]_vars

\* the second statement of a repeated confirm is about to run on a strategy
\* whose attempt row the first call set to executed with the same signature
C8_Witness ==
    /\ C8_Repeat
    /\ req[1].pc = "exec_rows"
    /\ \E k \in RowsOf(executions, req[1].id) :
          /\ executions[k].status = "executed"
          /\ executions[k].tx_signature = req[1].arg

\* C9: the second statement of markStrategyExecuted changes exactly the most
\* recent triggered attempt row of the strategy, to executed with the
\* signature; every other row, older triggered rows of the strategy included,
\* is left as it is.
C9_OnlyMostRecentRow ==
    [][(req[1].op = "confirm" /\ req[1].pc = "exec_rows" /\ req'[1].pc = "done") =>
         /\ Len(executions') = Len(executions)
         /\ \A k \in 1..Len(executions) :
               executions'[k] =
                  IF k \in MostRecentTriggered(executions, req[1].id)
                  THEN [executions[k] EXCEPT !.status = "executed",
                                             !.tx_signature = req[1].arg]
                  ELSE executions[k]]_vars

\* C10: GET /:id/execute on a strategy that is not triggered ends in an error
\* with no collaborator call, at the route's check and at the SELECT of
\* prepareStrategyExecution alike (the status may change between the two), and
\* getQuote and buildSwapTransaction are only ever called for a row that was
\* read as triggered.
C10_PrepareRejectsNonTriggered ==
    /\ [][\A i \in Ids :
            (ExecuteBegin(1, "u1", i)
             /\ (i \notin DOMAIN strategies \/ strategies[i].status # "triggered"))
            => /\ req'[1].pc = "done"
               /\ req'[1].out \in {"NOT_FOUND", "NOT_TRIGGERED"}
               /\ req'[1].calls = <<>>]_vars
    /\ [][(req[1].op = "execute" /\ req[1].pc = "prepare" /\ req'[1] # req[1]) =>
            ((req[1].id \notin DOMAIN strategies
              \/ strategies[req[1].id].status # "triggered")
             => /\ req'[1].pc = "done"
                /\ req'[1].out = "EXECUTION_ERROR"
                /\ req'[1].calls = <<>>)]_vars
    /\ [][(req'[1].calls # req[1].calls /\ req'[1].calls # <<>>) =>
            /\ req[1].pc \in {"quote", "swap"}
            /\ req[1].found[1].status = "triggered"]_vars

\* a preparation whose strategy left triggered after the route's check has
\* ended in an error without a call
C10_Witness ==
    /\ req[1].pc = "done"
    /\ req[1].out = "EXECUTION_ERROR"
    /\ req[1].calls = <<>>

\* C11: no step of GET /:id/execute, from the route's check to the return of
\* prepareStrategyExecution, whether it ends in a payload or in an error,
\* changes a strategy row or an execution-attempt row.
C11_PrepareWritesNothing ==
    [][(req'[1] # req[1]) => UNCHANGED <<strategies, executions, nextId>>]_vars

\* a preparation has run through getQuote and buildSwapTransaction and the
\* strategy is still triggered with its triggered attempt row
C11_Witness ==
    /\ req[1].pc = "done"
    /\ Len(req[1].calls) = 2
    /\ strategies[1].status = "triggered"
    /\ executions[1].status = "triggered"

\* C12: a logical call that failed on the primary and succeeded on the backup
\* returns the backup's result, and the next logical call, started within
\* RETRY_INTERVAL of the recorded failure, is sent to the backup without an
\* attempt against the primary.
C12_FailoverSticks ==
    /\ [][(/\ rpcCall[1].pc = "fetch"
           /\ rpcCall'[1].pc = "done"
           /\ rpcCall'[1].outcome = "ok")
          => rpcCall[1].endpoint = rpcCall[1].attempts[Len(rpcCall[1].attempts)]]_vars
    /\ [][(/\ backup
           /\ rpcCall[1].pc = "done"
           /\ rpcCall[1].outcome = "ok"
           /\ rpcCall[1].attempts = <<"primary", "backup">>
           /\ now - lastPrimaryCheck <= RETRY_INTERVAL
           /\ rpcCall'[1].pc = "fetch")
          => rpcCall'[1].attempts = <<"backup">>]_vars

\* the attempts of a logical call against one endpoint
AttemptsAt(c, e) ==
    {k \in 1..Len(rpcCall[c].attempts) : rpcCall[c].attempts[k] = e}

\* C13: a logical call running alone makes at most two attempts, at most one
\* against each endpoint, and a failure of the backup attempt, or any failure
\* with no backup configured, ends the call in an error with no further attempt.
C13_Attempts ==
    /\ Len(rpcCall[1].attempts) <= 2
    /\ Cardinality(AttemptsAt(1, "primary")) <= 1
    /\ Cardinality(AttemptsAt(1, "backup")) <= 1
    /\ ~backup => AttemptsAt(1, "backup") = {}
    /\ rpcCall[1].outcome = "error" =>
          \/ ~backup
          \/ rpcCall[1].attempts[Len(rpcCall[1].attempts)] = "backup"

C13_AtMostOneFailover ==
    /\ []C13_Attempts
    /\ [][(/\ rpcCall[1].pc = "fetch"
           /\ rpcCall'[1] # rpcCall[1]
           /\ rpcCall'[1].outcome # "ok"
           /\ (~backup \/ rpcCall[1].endpoint = "backup"))
          => /\ rpcCall'[1].pc = "done"
             /\ rpcCall'[1].outcome = "error"
             /\ rpcCall'[1].attempts = rpcCall[1].attempts]_vars

\* a call failed on the primary, failed over, failed on the backup and raised
C13_Witness ==
    /\ rpcCall[1].pc = "done"
    /\ rpcCall[1].outcome = "error"
    /\ rpcCall[1].attempts = <<"primary", "backup">>

\* the polls of a run are bounded and a run that ends by the loop condition
\* returns false once the timeout has elapsed
C14_Bounded ==
    /\ confirmTx.polls <= timeout \div PollDelay
    /\ confirmTx.pc # "idle" => now - confirmTx.start < timeout + ErrorDelay
    /\ (confirmTx.pc = "done" /\ confirmTx.cause = "timeout") =>
          /\ confirmTx.result = "false"
          /\ now - confirmTx.start >= timeout

\* C14: confirmTransaction terminates: whatever the polls return (no status, a
\* status that decides nothing, a failed call), a started run reaches its
\* return, after at most timeout / 1000 polls, and a run no poll decided
\* returns false when the 60 seconds have elapsed.
C14_ConfirmTerminates ==
    /\ []C14_Bounded
    /\ (confirmTx.pc # "idle") ~> (confirmTx.pc = "done")

\* a run in which no poll decided has returned false by the timeout after the
\* largest number of polls
C14_Witness ==
    /\ confirmTx.pc = "done"
    /\ confirmTx.cause = "timeout"
    /\ confirmTx.result = "false"
    /\ confirmTx.polls = timeout \div PollDelay

\* the call the loop awaits has settled with a result
Settled(pc) ==
    /\ confirmTx.pc = pc
    /\ rpcCall[1].pc = "done"
    /\ rpcCall[1].outcome = "ok"
    /\ confirmTx' # confirmTx

\* a signature status without error that is confirmed or finalized
IsConfirmed(status) ==
    /\ status # NoStatus
    /\ ~status.err
    /\ status.confirmationStatus \in {"confirmed", "finalized"}

\* C15: confirmTransaction returns true exactly on a poll that observed a
\* status without error whose confirmationStatus is confirmed or finalized,
\* and the first poll that observes one returns true; processed or an absent
\* status never gives true.
C15_TrueIffConfirmed ==
    /\ [](confirmTx.result = "true" =>
            /\ confirmTx.pc = "done"
            /\ rpcCall[1].method = "getSignatureStatuses"
            /\ rpcCall[1].outcome = "ok"
            /\ IsConfirmed(rpcCall[1].value[1]))
    /\ [][(Settled("status") /\ IsConfirmed(rpcCall[1].value[1]))
          => (confirmTx'.pc = "done" /\ confirmTx'.result = "true")]_vars

\* a run returned true on a later poll than its first, on a finalized status
C15_Witness ==
    /\ confirmTx.result = "true"
    /\ confirmTx.polls >= 2
    /\ rpcCall[1].value[1].confirmationStatus = "finalized"

\* C16: the first poll whose status reports an error returns false with no
\* further call, also when that status is confirmed or finalized.
C16_ErrorReturnsFalse ==
    [][(Settled("status") /\ rpcCall[1].value[1] # NoStatus
        /\ rpcCall[1].value[1].err)
       => /\ confirmTx'.pc = "done"
          /\ confirmTx'.result = "false"
          /\ confirmTx'.polls = confirmTx.polls
          /\ rpcCall' = rpcCall]_vars

\* a run returned false on a status that carries both an error and confirmed
C16_Witness ==
    /\ confirmTx.pc = "done"
    /\ confirmTx.result = "false"
    /\ confirmTx.cause = "status"
    /\ rpcCall[1].value[1].err
    /\ rpcCall[1].value[1].confirmationStatus = "confirmed"

\* C17: a poll whose block height is greater than lastValidBlockHeight returns
\* false with no further call; a block height equal to it goes to the wait of
\* the iteration, after which the loop polls again while the timeout allows.
C17_ExpiryStops ==
    /\ [][Settled("height") =>
            IF rpcCall[1].value[1].height > confirmTx.lastValid
            THEN /\ confirmTx'.pc = "done"
                 /\ confirmTx'.result = "false"
                 /\ rpcCall' = rpcCall
            ELSE confirmTx'.pc = "sleep"]_vars
    /\ [][(confirmTx.pc = "sleep" /\ confirmTx' # confirmTx
           /\ now + PollDelay - confirmTx.start < timeout)
          => /\ confirmTx'.pc = "status"
             /\ confirmTx'.polls = confirmTx.polls + 1]_vars

\* a run polled again after a block height equal to lastValidBlockHeight and
\* then stopped on a greater one
C17_Witness ==
    /\ confirmTx.pc = "done"
    /\ confirmTx.cause = "expired"
    /\ confirmTx.polls >= 2
    /\ rpcCall[1].value[1].height = confirmTx.lastValid + 1

\* C18: confirmTransaction surfaces only true or false: a call that failed,
\* with its failover exhausted, sends the loop to the 2-second wait, after
\* which it polls again while the timeout allows.
C18_NeverRaises ==
    /\ [](confirmTx.result \in {"none", "true", "false"}
          /\ (confirmTx.pc = "done" => confirmTx.result \in {"true", "false"}))
    /\ [][(/\ confirmTx.pc \in {"status", "height"}
           /\ rpcCall[1].pc = "done"
           /\ rpcCall[1].outcome = "error"
           /\ confirmTx' # confirmTx)
          => (confirmTx'.pc = "sleepErr" /\ rpcCall' = rpcCall)]_vars
    /\ [][(confirmTx.pc = "sleepErr" /\ confirmTx' # confirmTx)
          => /\ now' = now + ErrorDelay
             /\ IF now' - confirmTx.start < timeout
                THEN confirmTx'.pc = "status"
                     /\ confirmTx'.polls = confirmTx.polls + 1
                ELSE confirmTx'.pc = "done" /\ confirmTx'.result = "false"]_vars

\* the loop is in the 2-second wait after a getBlockHeight that failed on the
\* primary and on the backup
C18_Witness ==
    /\ confirmTx.pc = "sleepErr"
    /\ rpcCall[1].method = "getBlockHeight"
    /\ rpcCall[1].outcome = "error"
    /\ rpcCall[1].attempts = <<"primary", "backup">>

\* C19: when two sweeps overlap on a strategy both read as active, no step of
\* a sweep removes or rewrites an attempt row (a duplicate row is the worst
\* that happens), and the write of the sweep that comes second leaves the
\* status as it finds it, also when a confirm landed after the first write.
C19_OverlapOnlyDuplicates ==
    /\ [][(sweep' # sweep) =>
            /\ Len(executions') >= Len(executions)
            /\ \A k \in 1..Len(executions) : executions'[k] = executions[k]]_vars
    /\ [][\A w \in Sweepers, i \in DOMAIN strategies :
            (/\ sweep'[w] # sweep[w]
             /\ \E o \in Sweepers \ {w} : Written(o, i) # {}
             /\ i \in DOMAIN strategies')
            => strategies'[i].status = strategies[i].status]_vars

\* C20: a sweep in which the write for one strategy failed still ends with
\* every strategy it loaded evaluated, and written triggered where the price
\* is non-zero and the condition holds.
C20_ErrorIsolated ==
    [][(sweep[1].pc # "idle" /\ sweep'[1].pc = "idle") =>
         \A k \in 1..Len(sweep[1].active) :
            LET s == sweep[1].active[k]
                p == sweep[1].prices[s.token_mint]
            IN /\ k <= sweep[1].i
               /\ (p # 0 /\ RefTrigger(s.type, s.trigger_price, p))
                    => Written(1, s.id) # {}]_vars

\* C21: when the batched price fetch of a tick fails as a whole (a response
\* that is not OK, or the request itself failing), checkTriggers raises no
\* error to its caller: the start of a sweep, which is the read of the active
\* strategies and the price fetch, never ends in the catch of scheduled().
C21_FetchFailureNotRaised ==
    [][(sweep[1].pc = "idle") => (sweep'[1].pc # "raised")]_vars

\* the results of sweep w that report strategy id
ResultsFor(w, id) ==
    {k \in 1..Len(sweep[w].results) : sweep[w].results[k].strategyId = id}

\* what C22 asks of a run of sweep w that returns
C22_RunOutcome(w) ==
    \A k \in 1..Len(sweep[w].active) :
       LET s == sweep[w].active[k]
           p == sweep[w].prices[s.token_mint]
       IN /\ (p = 0) =>
               /\ Written(w, s.id) = {}
               /\ NewRows(w, s.id) = {}
               /\ ResultsFor(w, s.id) = {}
               /\ strategies[s.id].status = "active"
          /\ (p # 0) =>
               /\ Cardinality(ResultsFor(w, s.id)) = 1
               /\ \A n \in ResultsFor(w, s.id) :
                     /\ sweep[w].results[n].currentPrice = p
                     /\ sweep[w].results[n].shouldTrigger
                           = RefTrigger(s.type, s.trigger_price, p)
               /\ (Written(w, s.id) # {}) = RefTrigger(s.type, s.trigger_price, p)

\* C22: an active strategy whose token has price 0 or no price in the tick is
\* skipped: the iteration at it writes no table and reports nothing, and when
\* the sweep returns the strategy is still active, has no new attempt row and
\* is not in the result, while every other strategy of the tick has exactly
\* one result carrying its price and its decision and was written triggered
\* exactly when its condition holds.
C22_ZeroPriceSkipped ==
    /\ [][(/\ sweep[1].pc = "loop"
           /\ sweep[1].i <= Len(sweep[1].active)
           /\ sweep'[1] # sweep[1]
           /\ sweep[1].prices[sweep[1].active[sweep[1].i].token_mint] = 0)
          => /\ UNCHANGED <<strategies, executions>>
             /\ sweep'[1].results = sweep[1].results
             /\ sweep'[1].pc = "loop"
             /\ sweep'[1].i = sweep[1].i + 1]_vars
    /\ [][(sweep[1].pc = "loop" /\ sweep'[1].pc = "idle") => C22_RunOutcome(1)]_vars

\* a sweep is about to return: it had no price for the mint of strategy 1,
\* which is still active without a row, and it triggered strategy 2
C22_Witness ==
    /\ sweep[1].pc = "loop"
    /\ sweep[1].i > Len(sweep[1].active)
    /\ Len(sweep[1].active) = 2
    /\ sweep[1].prices["m1"] = 0
    /\ sweep[1].prices["m2"] # 0
    /\ strategies[1].status = "active"
    /\ RowsOf(executions, 1) = {}
    /\ strategies[2].status = "triggered"
    /\ Written(1, 2) # {}
    /\ NewRows(1, 2) # {}

\* the strategies of user u whose stored status is active
ActiveOf(u) ==
    {i \in DOMAIN strategies :
        strategies[i].user_id = u /\ strategies[i].status = "active"}

\* C23: POST / by a user who holds 10 or more active strategies, whatever its
\* (valid) body and whatever else is in flight, ends at once with the limit
\* error and inserts no strategy: no table changes and the request has no
\* step left.
C23_LimitRejectsCreate ==
    [][\A r \in Slots, b \in CreateBodies :
          (CreateBegin(r, "u1", b)
           /\ Cardinality(ActiveOf("u1")) >= MaxActiveStrategies)
          => /\ req'[r].pc = "done"
             /\ req'[r].out = "LIMIT_REACHED"
             /\ UNCHANGED <<strategies, executions, nextId>>]_vars

\* a create was refused with the limit error while its user holds ten active
\* strategies, the tenth created after the nine held at the start
C23_Witness ==
    /\ req[1].out = "LIMIT_REACHED"
    /\ req[1].pc = "done"
    /\ Cardinality(ActiveOf("u1")) = MaxActiveStrategies
    /\ nextId = 2

\* C24: under any interleaving of POST / requests of one user, with pauses
\* but no resume, the user never holds more than 10 active strategies.
C24_NeverMoreThanTen ==
    \A u \in Users : Cardinality(ActiveOf(u)) <= MaxActiveStrategies

\* C25: with one sweep at a time, a strategy that never reached failed has at
\* most one execution-attempt row (a second row takes a re-activation after a
\* failure).  No step of SpecDecision fails a strategy.
C25_OneRowUnlessFailed ==
    \A i \in DOMAIN strategies : Cardinality(RowsOf(executions, i)) <= 1

\* markStrategyFailed applied to a triggered strategy, once and twice
C26_Once ==
    \A i \in DOMAIN strategies, e \in ErrorMessages :
       strategies[i].status = "triggered" =>
          LET db == [strategies |-> strategies, executions |-> executions]
              once == MarkStrategyFailed(db, i, e)
              twice == MarkStrategyFailed(once, i, e)
          IN /\ twice = once
             /\ once.strategies[i].status = "failed"
             /\ Len(once.executions) = Len(executions)
             /\ \A k \in RowsOf(executions, i) :
                   executions[k].status = "triggered"
                     => /\ once.executions[k].status = "failed"
                        /\ once.executions[k].error_message = e

\* the request in flight repeats a markStrategyFailed that has completed
C26_Repeat ==
    /\ req[2].op = "markFailed"
    /\ req[2].id \in DOMAIN strategies
    /\ strategies[req[2].id].status = "failed"
    /\ \A k \in RowsOf(executions, req[2].id) : executions[k].status # "triggered"

\* C26: markStrategyFailed on a triggered strategy sets the strategy failed and
\* its triggered attempt rows failed with the given message, and applying it a
\* second time with the same arguments gives the same state; the steps of a
\* repeated call change neither table.
C26_MarkFailedIdempotent ==
    /\ []C26_Once
    /\ [][(C26_Repeat /\ req'[2] # req[2]) => UNCHANGED <<strategies, executions>>]_vars

\* the second statement of a repeated markStrategyFailed is about to run on a
\* strategy whose attempt row the first call set to failed with the message
C26_Witness ==
    /\ C26_Repeat
    /\ req[2].pc = "fail_rows"
    /\ \E k \in RowsOf(executions, req[2].id) :
          /\ executions[k].status = "failed"
          /\ executions[k].error_message = req[2].arg

\* C27: prepareStrategyExecution returns no payload when the price impact of
\* the quote, in basis points, exceeds the slippage tolerance stored with the
\* strategy, for every tolerance and impact of the inputs.
C27_ImpactAboveToleranceFails ==
    [][(/\ req[1].op = "execute" /\ req[1].pc = "swap" /\ req'[1].pc = "done"
        /\ req[1].quote[1].hasRoute
        /\ req[1].quote[1].priceImpactPct * 100 > strategies[req[1].id].slippage_bps)
       => req'[1].out # "OK"]_vars

\* C28: the quote request of a preparation takes its direction from the kind
\* of the strategy alone (buy_dip: SOL in, the token out; take_profit: the
\* token in, SOL out) and carries the stored amount and the stored slippage
\* tolerance.
C28_DirectionByKind ==
    (req[1].op = "execute" /\ req[1].pc \in {"quote", "swap"}) =>
       LET s == strategies[req[1].id]
           q == req[1].quoteReq[1]
       IN /\ Len(req[1].quoteReq) = 1
          /\ (s.type = "buy_dip") =>
                (q.inputMint = SOL_MINT /\ q.outputMint = s.token_mint)
          /\ (s.type = "take_profit") =>
                (q.inputMint = s.token_mint /\ q.outputMint = SOL_MINT)
          /\ q.amount = s.amount
          /\ q.slippageBps = s.slippage_bps

\* the quote of a take_profit strategy with amount "5" and tolerance 500 has
\* come back: it was asked from the token into SOL
C28_Witness ==
    /\ req[1].op = "execute"
    /\ req[1].pc = "swap"
    /\ strategies[1].type = "take_profit"
    /\ req[1].quoteReq[1] = [inputMint |-> "m1", outputMint |-> SOL_MINT,
                              amount |-> "5", slippageBps |-> 500]

\* a body that fails validation as the claim lists it: a bad token, symbol,
\* kind, trigger price, amount or slippage
C29_Invalid(b) ==
    \/ b.tokenMint \notin Mints
    \/ b.tokenSymbol \notin TokenSymbols
    \/ b.type \notin Types
    \/ b.triggerPrice <= 0
    \/ b.amount \notin {"5", "1000"}
    \/ b.slippageBps < 1
    \/ b.slippageBps > MaxSlippageDefault

\* C29: POST / with a body that fails validation ends at once in an error
\* (VALIDATION_ERROR, or INTERNAL_ERROR where BigInt throws on the amount)
\* without any access to the store: no strategy row is inserted, no row
\* changes, and every row that is ever inserted comes from a valid body.
C29_InvalidCreateTouchesNothing ==
    /\ [][\A u \in Users, b \in RequestBodies :
            (CreateBegin(1, u, b) /\ C29_Invalid(b))
            => /\ req'[1].pc = "done"
               /\ req'[1].out \in {"VALIDATION_ERROR", "INTERNAL_ERROR"}
               /\ req'[1].calls = <<>>
               /\ UNCHANGED <<strategies, executions, nextId>>]_vars
    /\ [][\A i \in DOMAIN strategies' \ DOMAIN strategies :
            ~C29_Invalid([tokenMint |-> strategies'[i].token_mint,
                          tokenSymbol |-> strategies'[i].token_symbol,
                          type |-> strategies'[i].type,
                          triggerPrice |-> strategies'[i].trigger_price,
                          amount |-> strategies'[i].amount,
                          slippageBps |-> strategies'[i].slippage_bps])]_vars

\* a create was refused by the validation while the strategy created before
\* it is stored: the handler made no store call
C29_Witness ==
    /\ req[1].pc = "done"
    /\ req[1].out = "VALIDATION_ERROR"
    /\ req[1].calls = <<>>
    /\ DOMAIN strategies = {1}

\* C30: no step changes a column of an existing strategy other than status
\* and tx_signature (the timestamps are not modelled): amount, trigger price,
\* kind, token, symbol, slippage tolerance and owner stay as created under
\* status updates, sweep transitions, markStrategyExecuted, markStrategyFailed
\* and prepareStrategyExecution.
C30_OnlyStatusColumnsWritten ==
    [][\A i \in DOMAIN strategies \cap DOMAIN strategies' :
          [strategies'[i] EXCEPT !.status = strategies[i].status,
                                 !.tx_signature = strategies[i].tx_signature]
             = strategies[i]]_vars

\* strategy 1 has been executed with signature s1 and a preparation for it has
\* ended: its other columns are those of its creation
C30_Witness ==
    /\ strategies[1].status = "executed"
    /\ strategies[1].tx_signature = "s1"
    /\ req[1].pc = "done"
    /\ req[1].out = "EXECUTION_ERROR"
    /\ strategies[1].amount = "1000"
    /\ strategies[1].trigger_price = 2
    /\ strategies[1].type = "buy_dip"
    /\ strategies[1].token_mint = "m1"
    /\ strategies[1].user_id = "u1"

\* the status an uninterrupted sweep at the steady prices gives strategy i
C31_Uninterrupted(i) ==
    IF RefTrigger(strategies[i].type, strategies[i].trigger_price,
                  SteadyPrices[strategies[i].token_mint])
    THEN "triggered" ELSE "active"

\* C31: when a run of a sweep ends, by its return or by a crash at any await,
\* every strategy it wrote is triggered and every other strategy it loaded is
\* active; a sweep loads exactly the strategies that are still active; when
\* a sweep returns, crashed sweeps before it or not, every strategy has the
\* status an uninterrupted sweep at the same prices gives it; and no strategy
\* ever has two attempt rows with status 'triggered'.
C31_CrashRetryConverges ==
    /\ [][(sweep[1].pc \in {"loop", "insert"} /\ sweep'[1].pc = "idle") =>
            /\ UNCHANGED <<strategies, executions>>
            /\ \A k \in 1..Len(sweep[1].active) :
                  strategies[sweep[1].active[k].id].status =
                     IF Written(1, sweep[1].active[k].id) # {}
                     THEN "triggered" ELSE "active"]_vars
    /\ [][(sweep[1].pc = "idle" /\ sweep'[1].pc = "loop") =>
            SnapshotIds(1)' = {i \in DOMAIN strategies :
                                 strategies[i].status = "active"}]_vars
    /\ [][(/\ sweep[1].pc = "loop"
           /\ sweep[1].i > Len(sweep[1].active)
           /\ sweep'[1].pc = "idle") =>
            \A i \in DOMAIN strategies :
               strategies'[i].status = C31_Uninterrupted(i)]_vars
    /\ [](\A i \in DOMAIN strategies :
            Cardinality({k \in RowsOf(executions, i) :
                            executions[k].status = "triggered"}) <= 1)

\* a retry is about to return: the sweep before it crashed after it had
\* triggered strategy 1, and the retry loaded strategy 2 alone and triggered it
C31_Witness ==
    /\ sweep[1].pc = "loop"
    /\ sweep[1].i > Len(sweep[1].active)
    /\ Len(sweep[1].active) = 1
    /\ sweep[1].active[1].id = 2
    /\ Written(1, 2) # {}
    /\ strategies[1].status = "triggered"
    /\ strategies[2].status = "triggered"

\* C35: at every point where no sweep is between its UPDATE and its INSERT for
\* the strategy, a strategy whose status is triggered has at least one attempt
\* row with status 'triggered', also after a sweep crashed between the two.
C35_TriggeredHasRow ==
    \A i \in DOMAIN strategies :
       (/\ strategies[i].status = "triggered"
        /\ ~(sweep[1].pc = "insert" /\ Current(1).id = i))
       => \E k \in RowsOf(executions, i) : executions[k].status = "triggered"

\* a step in which a sweep is terminated before its return or its start ends
\* in an error
C39_SweepFails ==
    \/ /\ sweep[1].pc \in {"loop", "insert"}
       /\ sweep'[1].pc = "idle"
       /\ ~(sweep[1].pc = "loop" /\ sweep[1].i > Len(sweep[1].active))
    \/ sweep[1].pc # "raised" /\ sweep'[1].pc = "raised"

\* C39: if ticks keep occurring and sweeps crash or fail only finitely often,
\* every strategy (all are created active, and no user pauses or deletes
\* them) whose price resolves and meets its trigger condition is eventually
\* triggered.
C39_EventuallyTriggered ==
    (<>[][~C39_SweepFails]_vars) =>
       \A i \in Ids :
          <>(C31_Uninterrupted(i) = "triggered" => strategies[i].status = "triggered")

\* after a sweep crashed between its two writes for strategy 1, a later sweep
\* has triggered strategy 2 and logged its attempt
C39_Witness ==
    /\ sweep[1].pc = "idle"
    /\ strategies[1].status = "triggered"
    /\ RowsOf(executions, 1) = {}
    /\ strategies[2].status = "triggered"
    /\ RowsOf(executions, 2) # {}

\* C32: a call of markStrategyExecuted that is repeated after an earlier call
\* was interrupted between its two writes is accepted like the first, and
\* when a call with signature s returns, the strategy row is executed with s
\* and every attempt row of the strategy is executed with s: none stays
\* triggered.
C32_ConfirmRetryConverges ==
    /\ [][\A r \in Slots :
            (req[r].pc = "done" /\ req'[r] # req[r])
            => req'[r].pc = "exec_strategy"]_vars
    /\ [][\A r \in Slots :
            (req[r].op = "confirm" /\ req[r].pc = "exec_rows" /\ req'[r].out = "OK")
            => /\ strategies'[req[r].id].status = "executed"
               /\ strategies'[req[r].id].tx_signature = req[r].arg
               /\ RowsOf(executions', req[r].id) # {}
               /\ \A k \in RowsOf(executions', req[r].id) :
                     /\ executions'[k].status = "executed"
                     /\ executions'[k].tx_signature = req[r].arg]_vars

\* the call in slot 1 was interrupted after its first write; the repeated call
\* in slot 2 has returned and both rows are executed with the signature
C32_Witness ==
    /\ req[1].out = "INTERRUPTED"
    /\ req[2].out = "OK"
    /\ strategies[1].status = "executed"
    /\ strategies[1].tx_signature = "s1"
    /\ executions[1].status = "executed"
    /\ executions[1].tx_signature = "s1"

\* C34: whenever no confirmation is between its two writes, a strategy whose
\* status is executed has an attempt row with status executed whose
\* tx_signature is the one stored on the strategy row.
C34_ExecutedHasMatchingRow ==
    (\A r \in Slots : req[r].pc = "done") =>
       \A i \in DOMAIN strategies :
          strategies[i].status = "executed" =>
             \E k \in RowsOf(executions, i) :
                /\ executions[k].status = "executed"
                /\ executions[k].tx_signature = strategies[i].tx_signature

\* C33: the getEndpoint of a logical call that starts returns the backup
\* exactly when primaryFailed is set, a backup is configured and at most 30
\* seconds have passed since the recorded failure; once more than 30 seconds
\* have passed it clears primaryFailed and returns the primary; with
\* primaryFailed unset it returns the primary and leaves the flag unset.
C33_EndpointFollowsWindow ==
    [][(rpcCall[1].pc \in {"idle", "done"} /\ rpcCall'[1].pc = "fetch") =>
         /\ (rpcCall'[1].endpoint = "backup")
               = (primaryFailed /\ backup /\ now - lastPrimaryCheck <= 30000)
         /\ rpcCall'[1].endpoint \in {"primary", "backup"}
         /\ (primaryFailed /\ now - lastPrimaryCheck > 30000)
               => (~primaryFailed' /\ rpcCall'[1].endpoint = "primary")
         /\ (primaryFailed /\ now - lastPrimaryCheck <= 30000) => primaryFailed'
         /\ ~primaryFailed
               => (~primaryFailed' /\ rpcCall'[1].endpoint = "primary")]_vars

\* a logical call started exactly 30 seconds after the recorded failure has
\* been sent to the backup
C33_Witness ==
    /\ rpcCall[1].pc = "fetch"
    /\ rpcCall[1].attempts = <<"backup">>
    /\ primaryFailed
    /\ now - lastPrimaryCheck = RETRY_INTERVAL

\* C36: with a backup configured, every logical call that ends in an error has
\* made an attempt against the backup, whatever the other calls did to
\* primaryFailed meanwhile.
C36_FailureTriesBackup ==
    [][\A c \in Callers :
          (backup /\ rpcCall[c].pc = "fetch" /\ rpcCall'[c].pc = "done"
           /\ rpcCall'[c].outcome = "error")
          => \E k \in 1..Len(rpcCall[c].attempts) :
                rpcCall[c].attempts[k] = "backup"]_vars

\* C37: whatever the calls running beside it do, a logical call makes at most
\* two endpoint attempts: it fails over at most once.
C37_AtMostTwoAttempts ==
    \A c \in Callers : Len(rpcCall[c].attempts) <= 2

\* C38: in every poll the signature status is examined before the block
\* height: a poll whose status has no error and is confirmed or finalized
\* returns true at once, without a getBlockHeight call, so whatever the block
\* height of the chain is at that moment (the step reads none); and
\* getBlockHeight is only ever called by a poll whose status has been
\* examined and decided nothing.
C38_StatusBeforeHeight ==
    /\ [][(Settled("status") /\ IsConfirmed(rpcCall[1].value[1]))
          => /\ confirmTx'.pc = "done"
             /\ confirmTx'.result = "true"
             /\ confirmTx'.cause = "status"
             /\ rpcCall' = rpcCall]_vars
    /\ [][(rpcCall'[1].method = "getBlockHeight" /\ rpcCall[1].method # "getBlockHeight")
          => /\ Settled("status")
             /\ ~IsConfirmed(rpcCall[1].value[1])
             /\ ~(rpcCall[1].value[1] # NoStatus /\ rpcCall[1].value[1].err)]_vars

\* a run returned true on a confirmed status in a poll after one that had
\* asked for the block height; its last call is the getSignatureStatuses
C38_Witness ==
    /\ confirmTx.pc = "done"
    /\ confirmTx.result = "true"
    /\ confirmTx.polls = 2
    /\ rpcCall[1].method = "getSignatureStatuses"
    /\ rpcCall[1].value[1].confirmationStatus = "confirmed"

\* the strategy rows, and the attempt rows, of the strategies user u owns
StrategyRowsOf(strats, u) ==
    [i \in {j \in DOMAIN strats : strats[j].user_id = u} |-> strats[i]]

AttemptRowsOf(strats, execs, u) ==
    SelectSeq(execs, LAMBDA e : e.strategy_id \in DOMAIN StrategyRowsOf(strats, u))

RowsUntouched(u) ==
    /\ StrategyRowsOf(strategies', u) = StrategyRowsOf(strategies, u)
    /\ AttemptRowsOf(strategies', executions', u) = AttemptRowsOf(strategies, executions, u)

====
